---- MODULE Spec2Model ----
(***************************************************************************)
(* A model of src/bmrb_data_fetcher.py (class BMRBFetcher).                *)
(*                                                                         *)
(* Documents are JSON values as Python holds them after json.load /        *)
(* response.json(): None, bool, int, float, str, list, dict.  A str is a   *)
(* sequence of one-character strings, a dict keeps its keys in insertion   *)
(* order.  The Python operations the code applies to them ("in", "for",    *)
(* subscript, .get, float, truth value) are operators that either give a   *)
(* value or raise; a raise is the record [exc |-> TRUE].                   *)
(***************************************************************************)
EXTENDS Integers, Sequences, FiniteSets, TLC

VARIABLES
    files,       \* the cache directory: file name -> content on disk, or NoFile
    calls,       \* requests.get calls made so far, per URL
    got,         \* per entry identifier: the body of its HTTP 200 response, or NoDoc
    entry_data,  \* the document handed to parse_relaxation_data / get_pdb_structure
    ret,         \* how the last top-level call ended
    pc,          \* concurrent callers of fetch_entry: position in the method
    loc          \* concurrent callers of fetch_entry: local variables

vars == <<files, calls, got, entry_data, ret, pc, loc>>

(***************************************************************************)
(* Python values                                                           *)
(***************************************************************************)
None == [t |-> "null"]
PyBool(b) == [t |-> "bool", b |-> b]
PyInt(n) == [t |-> "int", n |-> n]
\* the float m * 10^(-e), e >= 0, m not a multiple of 10 unless e = 0
PyFloatVal(m, e) == [t |-> "float", m |-> m, e |-> e]
PyNan == [t |-> "nan"]
PyInf(neg) == [t |-> "inf", neg |-> neg]
PyStr(s) == [t |-> "str", s |-> s]
PyList(xs) == [t |-> "list", items |-> xs]
PyDict(ks, vs) == [t |-> "dict", keys |-> ks, vals |-> vs]

EmptyDict == PyDict(<<>>, <<>>)
EmptyList == PyList(<<>>)

Raise == [exc |-> TRUE]
Value(v) == [exc |-> FALSE, val |-> v]

\* r, then F of its value: an exception in r propagates
Bind(r, F(_)) == IF r.exc THEN Raise ELSE F(r.val)

\* try: r / except: None
OrNone(r) == IF r.exc THEN None ELSE r.val

\* bool(x)
PyTruthy(x) ==
    CASE x.t = "null" -> FALSE
      [] x.t = "bool" -> x.b
      [] x.t = "int" -> x.n # 0
      [] x.t = "float" -> x.m # 0
      [] x.t = "nan" -> TRUE
      [] x.t = "inf" -> TRUE
      [] x.t = "str" -> Len(x.s) > 0
      [] x.t = "list" -> Len(x.items) > 0
      [] x.t = "dict" -> Len(x.keys) > 0

\* a occurs in b as a contiguous run of characters
IsSubstring(a, b) ==
    \E i \in 0..(Len(b) - Len(a)) :
        \A j \in 1..Len(a) : b[i + j] = a[j]

DictHas(d, k) == \E i \in 1..Len(d.keys) : d.keys[i] = k

DictAt(d, k) == d.vals[CHOOSE i \in 1..Len(d.keys) : d.keys[i] = k]

\* `k in x` for a str k
PyIn(k, x) ==
    CASE x.t = "dict" -> Value(DictHas(x, k))
      [] x.t = "list" -> Value(\E i \in 1..Len(x.items) : x.items[i] = PyStr(k))
      [] x.t = "str" -> Value(IsSubstring(k, x.s))
      [] OTHER -> Raise

\* x[k] for a str k
PyIndex(x, k) ==
    IF x.t = "dict" /\ DictHas(x, k) THEN Value(DictAt(x, k)) ELSE Raise

\* a variant of PyGet: the subscript x[k], which raises on an absent key
PyGetSubscript(x, k, default) ==
    IF x.t = "dict" /\ DictHas(x, k) THEN Value(DictAt(x, k)) ELSE Raise

\* x.get(k, default)
PyGet(x, k, default) ==
    IF x.t = "dict"
    THEN Value(IF DictHas(x, k) THEN DictAt(x, k) ELSE default)
    ELSE Raise

\* the values `for e in x` binds, in order
PyIter(x) ==
    CASE x.t = "dict" -> Value([i \in 1..Len(x.keys) |-> PyStr(x.keys[i])])
      [] x.t = "list" -> Value(x.items)
      [] x.t = "str" -> Value([i \in 1..Len(x.s) |-> PyStr(<<x.s[i]>>)])
      [] OTHER -> Raise

(***************************************************************************)
(* float()                                                                 *)
(***************************************************************************)
Digits == <<"0", "1", "2", "3", "4", "5", "6", "7", "8", "9">>

IsDigit(c) == \E d \in 1..10 : Digits[d] = c

DigitVal(c) == (CHOOSE d \in 1..10 : Digits[d] = c) - 1

IsSpace(c) == c \in {" ", "\t", "\n", "\r"}

RECURSIVE Pow10(_)
Pow10(n) == IF n = 0 THEN 1 ELSE 10 * Pow10(n - 1)

\* str.strip of whitespace
Strip(s) ==
    LET keep == {i \in 1..Len(s) : ~IsSpace(s[i])}
    IN  IF keep = {} THEN <<>>
        ELSE LET lo == CHOOSE i \in keep : \A j \in keep : i <= j
                 hi == CHOOSE i \in keep : \A j \in keep : j <= i
             IN  SubSeq(s, lo, hi)

Lower(c) ==
    CASE c = "I" -> "i" [] c = "N" -> "n" [] c = "F" -> "f" [] c = "A" -> "a"
      [] c = "T" -> "t" [] c = "Y" -> "y" [] c = "E" -> "e" [] OTHER -> c

LowerAll(s) == [i \in 1..Len(s) |-> Lower(s[i])]

\* an underscore is allowed only between two digits
UnderscoresOk(s) ==
    \A i \in 1..Len(s) :
        s[i] = "_" => /\ i > 1 /\ i < Len(s)
                      /\ IsDigit(s[i - 1]) /\ IsDigit(s[i + 1])

RECURSIVE DropUnderscores(_)
DropUnderscores(s) ==
    IF s = <<>> THEN <<>>
    ELSE IF Head(s) = "_" THEN DropUnderscores(Tail(s))
    ELSE <<Head(s)>> \o DropUnderscores(Tail(s))

AllDigits(s) == \A i \in 1..Len(s) : IsDigit(s[i])

RECURSIVE DigitsVal(_)
DigitsVal(s) ==
    IF s = <<>> THEN 0
    ELSE 10 * DigitsVal(SubSeq(s, 1, Len(s) - 1)) + DigitVal(s[Len(s)])

\* the index of the first character of s that is in cs, or Len(s) + 1
FirstOf(s, cs) ==
    IF \E i \in 1..Len(s) : s[i] \in cs
    THEN CHOOSE i \in 1..Len(s) : s[i] \in cs /\ \A j \in 1..(i - 1) : s[j] \notin cs
    ELSE Len(s) + 1

RECURSIVE Normalize(_, _)
Normalize(m, e) ==
    IF e > 0 /\ m % 10 = 0 THEN Normalize(m \div 10, e - 1) ELSE PyFloatVal(m, e)

\* sign * mant * 10^(exp - frac) as a float
Decimal(neg, mant, frac, exp) ==
    IF exp >= frac
    THEN PyFloatVal((IF neg THEN 0 - mant ELSE mant) * Pow10(exp - frac), 0)
    ELSE Normalize(IF neg THEN 0 - mant ELSE mant, frac - exp)

HasSign(s) == s # <<>> /\ s[1] \in {"+", "-"}

IsNeg(s) == s # <<>> /\ s[1] = "-"

Unsigned(s) == IF HasSign(s) THEN Tail(s) ELSE s

\* the parts of digits [. digits] [e [sign] digits]
MantPart(num) == SubSeq(num, 1, FirstOf(num, {"e", "E"}) - 1)

HasExp(num) == FirstOf(num, {"e", "E"}) <= Len(num)

ExpPart(num) == SubSeq(num, FirstOf(num, {"e", "E"}) + 1, Len(num))

IntPart(mantS) == SubSeq(mantS, 1, FirstOf(mantS, {"."}) - 1)

FracPart(mantS) == SubSeq(mantS, FirstOf(mantS, {"."}) + 1, Len(mantS))

FloatOfParts(neg, intS, fracS, hasExp, expNeg, expS) ==
    IF ~(/\ AllDigits(intS) /\ AllDigits(fracS) /\ Len(intS) + Len(fracS) > 0
         /\ (hasExp => expS # <<>> /\ AllDigits(expS)))
    THEN Raise
    ELSE IF expNeg
         THEN Value(Decimal(neg, DigitsVal(intS \o fracS), Len(fracS) + DigitsVal(expS), 0))
         ELSE Value(Decimal(neg, DigitsVal(intS \o fracS), Len(fracS), DigitsVal(expS)))

FloatOfMantExp(neg, mantS, hasExp, expS0) ==
    FloatOfParts(neg, IntPart(mantS), FracPart(mantS), hasExp, IsNeg(expS0),
                 Unsigned(expS0))

FloatOfNumber(neg, num) ==
    FloatOfMantExp(neg, MantPart(num), HasExp(num), ExpPart(num))

FloatOfBody(neg, body) ==
    IF LowerAll(body) \in {<<"i", "n", "f">>, <<"i", "n", "f", "i", "n", "i", "t", "y">>}
    THEN Value(PyInf(neg))
    ELSE IF LowerAll(body) = <<"n", "a", "n">> THEN Value(PyNan)
    ELSE IF ~UnderscoresOk(body) THEN Raise
    ELSE FloatOfNumber(neg, DropUnderscores(body))

FloatOfStripped(s1) == FloatOfBody(IsNeg(s1), Unsigned(s1))

\* float(s) for a str: [sign] (inf | infinity | nan | digits [. digits] [e [sign] digits])
FloatOfStr(s0) == FloatOfStripped(Strip(s0))

\* float(x)
PyFloat(x) ==
    CASE x.t = "str" -> FloatOfStr(x.s)
      [] x.t = "int" -> Value(PyFloatVal(x.n, 0))
      [] x.t = "bool" -> Value(PyFloatVal(IF x.b THEN 1 ELSE 0, 0))
      [] x.t \in {"float", "nan", "inf"} -> Value(x)
      [] OTHER -> Raise

(***************************************************************************)
(* The keys and literals of the source, as Python strings                  *)
(***************************************************************************)
K_T1 == <<"h", "e", "t", "e", "r", "o", "n", "u", "c", "l", "_", "T", "1", "_", "r", "e", "l", "a", "x", "a", "t", "i", "o", "n">>
K_T2 == <<"h", "e", "t", "e", "r", "o", "n", "u", "c", "l", "_", "T", "2", "_", "r", "e", "l", "a", "x", "a", "t", "i", "o", "n">>
K_NOE == <<"h", "e", "t", "e", "r", "o", "n", "u", "c", "l", "_", "N", "O", "E", "s">>
K_CCR == <<"c", "r", "o", "s", "s", "_", "c", "o", "r", "r", "e", "l", "a", "t", "i", "o", "n", "_", "D", "D", "_", "C", "S", "A">>
K_data == <<"d", "a", "t", "a">>
K_Comp == <<"C", "o", "m", "p", "_", "i", "n", "d", "e", "x", "_", "I", "D">>
K_Atom == <<"A", "t", "o", "m", "_", "I", "D">>
K_Val == <<"V", "a", "l">>
K_Err == <<"V", "a", "l", "_", "e", "r", "r">>
K_Rex == <<"R", "e", "x", "_", "t", "y", "p", "e">>
K_Rel == <<"r", "e", "l", "a", "t", "e", "d", "_", "e", "n", "t", "r", "i", "e", "s">>
K_DbName == <<"D", "a", "t", "a", "b", "a", "s", "e", "_", "n", "a", "m", "e">>
K_DbCode == <<"D", "a", "t", "a", "b", "a", "s", "e", "_", "a", "c", "c", "e", "s", "s", "i", "o", "n", "_", "c", "o", "d", "e">>
S_N == <<"N">>
S_DD_CSA == <<"D", "D", "_", "C", "S", "A">>
S_PDB == <<"P", "D", "B">>

(***************************************************************************)
(* parse_relaxation_data                                                   *)
(***************************************************************************)
\* the dict appended for one row of an R1, R2 or NOE loop
AtomRow(row) ==
    Bind(PyGet(row, K_Comp, None), LAMBDA residue :
    Bind(PyGet(row, K_Atom, PyStr(S_N)), LAMBDA atom :
    Bind(PyGet(row, K_Val, PyInt(0)), LAMBDA val :
    Bind(PyFloat(val), LAMBDA value :
    Bind(PyGet(row, K_Err, PyInt(0)), LAMBDA err :
    Bind(PyFloat(err), LAMBDA error :
        Value([residue |-> residue, atom |-> atom,
               value |-> value, error |-> error])))))))

\* the dict appended for one row of a cross-correlation loop
CcrRow(row) ==
    Bind(PyGet(row, K_Comp, None), LAMBDA residue :
    Bind(PyGet(row, K_Rex, PyStr(S_DD_CSA)), LAMBDA type :
    Bind(PyGet(row, K_Val, PyInt(0)), LAMBDA val :
    Bind(PyFloat(val), LAMBDA value :
    Bind(PyGet(row, K_Err, PyInt(0)), LAMBDA err :
    Bind(PyFloat(err), LAMBDA error :
        Value([residue |-> residue, type |-> type,
               value |-> value, error |-> error])))))))

OneRow(row, ccr) == IF ccr THEN CcrRow(row) ELSE AtomRow(row)

\* a variant of WalkRows: each measurement inserted at the front
RECURSIVE WalkRowsPrepend(_, _, _)
WalkRowsPrepend(rows, ccr, acc) ==
    IF rows = <<>> THEN Value(acc)
    ELSE Bind(OneRow(Head(rows), ccr), LAMBDA m :
            WalkRowsPrepend(Tail(rows), ccr, <<m>> \o acc))

\* for row in loop['data']: append
RECURSIVE WalkRows(_, _, _)
WalkRows(rows, ccr, acc) ==
    IF rows = <<>> THEN Value(acc)
    ELSE Bind(OneRow(Head(rows), ccr), LAMBDA m :
            WalkRows(Tail(rows), ccr, Append(acc, m)))

\* if 'data' in loop: for row in loop['data']: ...
WalkLoop(loop, ccr, acc) ==
    Bind(PyIn(K_data, loop), LAMBDA has :
        IF ~has THEN Value(acc)
        ELSE Bind(PyIndex(loop, K_data), LAMBDA data :
             Bind(PyIter(data), LAMBDA rows : WalkRows(rows, ccr, acc))))

\* for loop in entry_data[key]: ...
RECURSIVE WalkLoops(_, _, _)
WalkLoops(loops, ccr, acc) ==
    IF loops = <<>> THEN Value(acc)
    ELSE Bind(WalkLoop(Head(loops), ccr, acc), LAMBDA acc2 :
            WalkLoops(Tail(loops), ccr, acc2))

\* a variant of WalkSection: entry_data[key] without the test for the key
WalkSectionNoGuard(doc, key, ccr) ==
    Bind(PyIndex(doc, key), LAMBDA sec :
    Bind(PyIter(sec), LAMBDA loops : WalkLoops(loops, ccr, <<>>)))

\* if key in entry_data: for loop in entry_data[key]: ...
WalkSection(doc, key, ccr) ==
    Bind(PyIn(key, doc), LAMBDA has :
        IF ~has THEN Value(<<>>)
        ELSE Bind(PyIndex(doc, key), LAMBDA sec :
             Bind(PyIter(sec), LAMBDA loops : WalkLoops(loops, ccr, <<>>))))

ParseR1(doc) == WalkSection(doc, K_T1, FALSE)

ParseR2(doc) == WalkSection(doc, K_T2, FALSE)

ParseNOE(doc) == WalkSection(doc, K_NOE, FALSE)

ParseCCR(doc) == WalkSection(doc, K_CCR, TRUE)

\* a variant of ParseSections: one try block per kind, a failed kind left empty
ParseSectionsPerKind(doc, bmrb_id) ==
    Value([bmrb_id |-> bmrb_id,
           R1 |-> IF ParseR1(doc).exc THEN <<>> ELSE ParseR1(doc).val,
           R2 |-> IF ParseR2(doc).exc THEN <<>> ELSE ParseR2(doc).val,
           NOE |-> IF ParseNOE(doc).exc THEN <<>> ELSE ParseNOE(doc).val,
           CCR |-> IF ParseCCR(doc).exc THEN <<>> ELSE ParseCCR(doc).val])

\* the try block: the four sections in turn, an exception leaves it at once
ParseSections(doc, bmrb_id) ==
    Bind(ParseR1(doc), LAMBDA r1 :
    Bind(ParseR2(doc), LAMBDA r2 :
    Bind(ParseNOE(doc), LAMBDA noe :
    Bind(ParseCCR(doc), LAMBDA ccr :
        Value([bmrb_id |-> bmrb_id, R1 |-> r1, R2 |-> r2,
               NOE |-> noe, CCR |-> ccr])))))

\* a variant of parse_relaxation_data: `if entry_data is None` for `if not entry_data`
ParseIfNotNone(doc, bmrb_id) ==
    IF doc = None THEN None ELSE OrNone(ParseSections(doc, bmrb_id))

\* if not entry_data: return None; try ... except Exception: return None
parse_relaxation_data(doc, bmrb_id) ==
    IF ~PyTruthy(doc) THEN None ELSE OrNone(ParseSections(doc, bmrb_id))

(***************************************************************************)
(* get_pdb_structure                                                       *)
(***************************************************************************)
\* a variant of ScanRelated: the scan goes on to the last matching row
RECURSIVE ScanRelatedLast(_)
ScanRelatedLast(rows) ==
    IF rows = <<>> THEN Value(None)
    ELSE Bind(PyGet(Head(rows), K_DbName, None), LAMBDA name :
         Bind(ScanRelatedLast(Tail(rows)), LAMBDA later :
            IF name = PyStr(S_PDB) /\ later = None
            THEN PyGet(Head(rows), K_DbCode, None)
            ELSE Value(later)))

\* for entry in entry_data['related_entries']: first Database_name == 'PDB'
RECURSIVE ScanRelated(_)
ScanRelated(rows) ==
    IF rows = <<>> THEN Value(None)
    ELSE Bind(PyGet(Head(rows), K_DbName, None), LAMBDA name :
            IF name = PyStr(S_PDB)
            THEN PyGet(Head(rows), K_DbCode, None)
            ELSE ScanRelated(Tail(rows)))

\* the try block of get_pdb_structure
FindPdb(doc) ==
    Bind(PyIn(K_Rel, doc), LAMBDA has :
        IF ~has THEN Value(None)
        ELSE Bind(PyIndex(doc, K_Rel), LAMBDA sec :
             Bind(PyIter(sec), LAMBDA rows : ScanRelated(rows))))

\* except: pass; return None
get_pdb_structure(doc) == OrNone(FindPdb(doc))

(***************************************************************************)
(* Input documents                                                         *)
(***************************************************************************)
MaxRows == 2
MaxLoops == 2
MaxRel == 2

\* BMRB identifiers of the seed catalogue (GB3, ubiquitin)
Ids == {15477, 6457}

\* marks a key left out of a dict under construction
Absent == [t |-> "absent"]

\* the dict of the pairs <<key, value>> whose value is not Absent, in order
MkDict(pairs) ==
    LET kept == SelectSeq(pairs, LAMBDA p : p[2] # Absent)
    IN  PyDict([i \in 1..Len(kept) |-> kept[i][1]],
               [i \in 1..Len(kept) |-> kept[i][2]])

Dict1(k, v) == PyDict(<<k>>, <<v>>)

SeqsUpTo(S, n) == UNION {[1..k -> S] : k \in 0..n}

KindKeys == <<K_T1, K_T2, K_NOE, K_CCR>>

\* a document with the four section slots filled from secs (Absent leaves a key out)
DocOf(secs) == MkDict([i \in 1..4 |-> <<KindKeys[i], secs[i]>>])

S_1p2 == PyStr(<<"1", ".", "2">>)
S_0p05 == PyStr(<<"0", ".", "0", "5">>)
S_abc == PyStr(<<"a", "b", "c">>)
S_CA == PyStr(<<"C", "A">>)

\* field values: Val, Val_err, Atom_ID, Rex_type, Comp_index_ID
ValChoices ==
    {Absent, S_1p2, PyStr(<<" ", "-", "7", "e", "1">>), PyInt(3), PyBool(TRUE),
     S_abc, PyStr(<<>>), PyStr(<<"1", ".", "2", ".", "3">>), None, EmptyList}
ErrChoices == {Absent, S_0p05, PyStr(<<"x">>), None}
AtomChoices == {Absent, S_CA, None}
RexChoices == {Absent, PyStr(<<"C", "S", "A">>)}
CompChoices == {Absent, PyInt(1)}

\* the values of ValChoices and ErrChoices that are present and are no number
NonNumeric ==
    {S_abc, PyStr(<<>>), PyStr(<<"1", ".", "2", ".", "3">>), PyStr(<<"x">>),
     None, EmptyList}

RowVariety ==
    {MkDict(<<<<K_Comp, c>>, <<K_Atom, a>>, <<K_Val, v>>, <<K_Err, e>>, <<K_Rex, x>>>>) :
        c \in CompChoices, a \in AtomChoices, v \in ValChoices,
        e \in ErrChoices, x \in RexChoices}

OneRowSection(row) == PyList(<<Dict1(K_data, PyList(<<row>>))>>)

\* one section holding one loop holding one row, every combination of fields
RowDocs ==
    {Dict1(KindKeys[k], OneRowSection(row)) : k \in 1..4, row \in RowVariety}

RowA == MkDict(<<<<K_Comp, PyInt(1)>>, <<K_Atom, S_CA>>, <<K_Val, S_1p2>>, <<K_Err, S_0p05>>>>)
RowB == Dict1(K_Comp, PyInt(2))
RowBad == MkDict(<<<<K_Comp, PyInt(3)>>, <<K_Val, S_abc>>>>)
SmallRows == {RowA, RowB, RowBad}

\* loops: without 'data', or with up to MaxRows rows
LoopSet == {EmptyDict} \cup {Dict1(K_data, PyList(d)) : d \in SeqsUpTo(SmallRows, MaxRows)}

RowsOfLoop(loop) == IF DictHas(loop, K_data) THEN Len(DictAt(loop, K_data).items) ELSE 0

RECURSIVE TotalRows(_)
TotalRows(loops) ==
    IF loops = <<>> THEN 0 ELSE RowsOfLoop(Head(loops)) + TotalRows(Tail(loops))

\* sections: up to MaxLoops loops holding up to MaxRows rows between them
SectionSet ==
    {PyList(ls) : ls \in {x \in SeqsUpTo(LoopSet, MaxLoops) : TotalRows(x) <= MaxRows}}

OtherSet == {Absent, EmptyList, OneRowSection(RowA), OneRowSection(RowBad)}

\* the kind after kind f, cyclically
NextKind(f) == (f % 4) + 1

\* one section of any structure, the next kind's absent or holding one row
StructDocs ==
    {DocOf([i \in 1..4 |-> IF i = f THEN s ELSE IF i = NextKind(f) THEN o ELSE Absent]) :
        f \in 1..4, s \in SectionSet \cup {Absent},
        o \in {Absent, OneRowSection(RowA)}}

\* the four sections together, each simple
FourDocs == {DocOf(secs) : secs \in [1..4 -> OtherSet]}

\* values that are not a section, a loop, a row sequence or a row
BadShapes ==
    {None, PyInt(1), PyStr(<<>>), PyStr(K_data), Dict1(K_data, EmptyList), EmptyDict}

ShapeSections ==
    BadShapes
    \cup {PyList(<<x>>) : x \in BadShapes \cup {EmptyList, PyList(<<PyStr(K_data)>>)}}
    \cup {PyList(<<Dict1(K_data, x)>>) : x \in BadShapes}
    \cup {OneRowSection(x) : x \in BadShapes \cup {EmptyList}}

\* documents that are no dict of well-formed sections
ShapeDocs ==
    {None, EmptyDict, EmptyList, PyStr(<<>>), PyInt(0), PyBool(FALSE), PyInt(5),
     PyBool(TRUE), PyStr(K_T1), PyStr(K_Rel), PyList(<<PyStr(K_T2)>>),
     PyList(<<PyStr(K_Rel)>>), Dict1(K_data, EmptyList)}
    \cup {DocOf([i \in 1..4 |-> IF i = f THEN s ELSE IF i = NextKind(f) THEN o ELSE Absent]) :
            f \in 1..4, s \in ShapeSections, o \in {Absent, OneRowSection(RowA)}}

S_1ABC == PyStr(<<"1", "A", "B", "C">>)
S_2XYZ == PyStr(<<"2", "X", "Y", "Z">>)

\* rows of related_entries
RelRows ==
    {MkDict(<<<<K_DbName, PyStr(S_PDB)>>, <<K_DbCode, S_1ABC>>>>),
     MkDict(<<<<K_DbName, PyStr(S_PDB)>>, <<K_DbCode, S_2XYZ>>>>),
     Dict1(K_DbName, PyStr(S_PDB)),
     MkDict(<<<<K_DbName, PyStr(<<"S", "P">>)>>, <<K_DbCode, S_1ABC>>>>),
     Dict1(K_DbCode, S_2XYZ),
     PyStr(S_PDB)}

RelSections ==
    {PyList(rs) : rs \in SeqsUpTo(RelRows, MaxRel)}
    \cup {None, PyStr(S_PDB), Dict1(K_DbName, PyStr(S_PDB)), PyInt(1)}

RelDocs ==
    {MkDict(<<<<K_T1, t>>, <<K_Rel, r>>>>) :
        t \in {Absent, OneRowSection(RowA)}, r \in RelSections \cup {Absent}}

ParseDocs == RowDocs \cup StructDocs \cup FourDocs \cup ShapeDocs \cup RelDocs

(***************************************************************************)
(* The normalizer and the structure resolver applied to one document       *)
(***************************************************************************)
NoCall == [op |-> "none"]

Returned(op, arg, v) == [op |-> op, arg |-> arg, raised |-> FALSE, val |-> v]

Raised(op, arg) == [op |-> op, arg |-> arg, raised |-> TRUE]

\* a path of the cache directory: no file there, or a file and its cells
NoFile == [exists |-> FALSE, cells |-> <<>>]
File(cells) == [exists |-> TRUE, cells |-> cells]
NoDoc == [t |-> "nodoc"]

InitParse ==
    /\ entry_data \in ParseDocs
    /\ ret = NoCall
    /\ files = <<>>
    /\ calls = <<>>
    /\ got = <<>>
    /\ pc = <<>>
    /\ loc = <<>>

ParseRelaxationData ==
    /\ \E bmrb_id \in Ids :
          ret' = Returned("parse_relaxation_data", bmrb_id,
                          parse_relaxation_data(entry_data, bmrb_id))
    /\ UNCHANGED <<files, calls, got, entry_data, pc, loc>>

GetPdbStructure ==
    /\ ret' = Returned("get_pdb_structure", 0, get_pdb_structure(entry_data))
    /\ UNCHANGED <<files, calls, got, entry_data, pc, loc>>

NextParse == ParseRelaxationData \/ GetPdbStructure

SpecParse == InitParse /\ [][NextParse]_vars

(***************************************************************************)
(* What a document holds, read off its structure                           *)
(***************************************************************************)
IsList(x) == x.t = "list"

IsDict(x) == x.t = "dict"

\* loop is a dict whose 'data', when present, is a list of dicts
LoopWellFormed(loop) ==
    /\ IsDict(loop)
    /\ DictHas(loop, K_data) =>
          /\ IsList(DictAt(loop, K_data))
          /\ \A i \in 1..Len(DictAt(loop, K_data).items) :
                IsDict(DictAt(loop, K_data).items[i])

SectionWellFormed(sec) ==
    IsList(sec) /\ \A i \in 1..Len(sec.items) : LoopWellFormed(sec.items[i])

\* doc is a dict whose relaxation sections are lists of well-formed loops
WellFormed(doc) ==
    /\ IsDict(doc)
    /\ \A k \in 1..4 :
          DictHas(doc, KindKeys[k]) => SectionWellFormed(DictAt(doc, KindKeys[k]))

RECURSIVE FlatRows(_)
FlatRows(loops) ==
    IF loops = <<>> THEN <<>>
    ELSE (IF DictHas(Head(loops), K_data)
          THEN DictAt(Head(loops), K_data).items ELSE <<>>) \o FlatRows(Tail(loops))

\* the rows of kind k of a well-formed document, loop after loop
SectionRows(doc, k) ==
    IF DictHas(doc, KindKeys[k]) THEN FlatRows(DictAt(doc, KindKeys[k]).items) ELSE <<>>

\* the value of field k of a row, None when it has none
RowField(row, k) == IF IsDict(row) /\ DictHas(row, k) THEN DictAt(row, k) ELSE None

\* row has a Val or Val_err that is present and no number
BadRow(row) ==
    \/ DictHas(row, K_Val) /\ DictAt(row, K_Val) \in NonNumeric
    \/ DictHas(row, K_Err) /\ DictAt(row, K_Err) \in NonNumeric

\* kind k's section is a list holding a loop whose row list holds a bad row
BadRowIn(doc, k) ==
    /\ IsDict(doc) /\ DictHas(doc, KindKeys[k])
    /\ IsList(DictAt(doc, KindKeys[k]))
    /\ \E i \in 1..Len(DictAt(doc, KindKeys[k]).items) :
          LET loop == DictAt(doc, KindKeys[k]).items[i]
          IN  /\ IsDict(loop) /\ DictHas(loop, K_data)
              /\ IsList(DictAt(loop, K_data))
              /\ \E j \in 1..Len(DictAt(loop, K_data).items) :
                    /\ IsDict(DictAt(loop, K_data).items[j])
                    /\ BadRow(DictAt(loop, K_data).items[j])

HasBadRow(doc) == \E k \in 1..4 : BadRowIn(doc, k)

\* the sequence of kind k in a returned record set
Field(rs, k) ==
    CASE k = 1 -> rs.R1 [] k = 2 -> rs.R2 [] k = 3 -> rs.NOE [] k = 4 -> rs.CCR

\* d with key k (not in d) added
DictWith(d, k, v) == PyDict(Append(d.keys, k), Append(d.vals, v))

ParseDone == ret.op = "parse_relaxation_data"

ResolveDone == ret.op = "get_pdb_structure"

Zero == PyFloatVal(0, 0)

(***************************************************************************)
(* Properties of parse_relaxation_data and get_pdb_structure (SpecParse)   *)
(***************************************************************************)

\* C1: when any row of any of the four sections has a present, non-numeric
\* Val or Val_err, parse_relaxation_data returns None, never a record set,
\* whatever the other sections hold.
C1_AllOrNothing ==
    ParseDone /\ HasBadRow(entry_data) => ret.val = None

\* C1 witness: the bad row is in the R1 section, the R2 section holds a good
\* row, and the call has returned None.
C1_Witness ==
    /\ ParseDone /\ ret.val = None
    /\ WellFormed(entry_data)
    /\ BadRowIn(entry_data, 1) /\ ~BadRowIn(entry_data, 2)
    /\ Len(SectionRows(entry_data, 2)) > 0

\* C2: a record set returned for a document without kind k's key has an empty
\* sequence for k, and its other three sequences are those of the same
\* document with k's section present and empty; and a non-empty document that
\* fails without the key fails with the empty section too.
C2_AbsentSectionIndependent ==
    ParseDone /\ IsDict(entry_data) =>
        \A k \in 1..4 :
            ~DictHas(entry_data, KindKeys[k]) =>
                LET with == parse_relaxation_data(
                                DictWith(entry_data, KindKeys[k], EmptyList), ret.arg)
                IN  /\ ret.val # None =>
                          /\ Field(ret.val, k) = <<>>
                          /\ with # None
                          /\ \A j \in 1..4 : Field(with, j) = Field(ret.val, j)
                    /\ PyTruthy(entry_data) /\ ret.val = None => with = None

\* C2 witness: the NOE key is absent, the record set returned has an empty NOE
\* sequence and a non-empty R2 sequence.
C2_Witness ==
    /\ ParseDone /\ IsDict(entry_data) /\ ret.val # None
    /\ ~DictHas(entry_data, K_NOE)
    /\ ret.val.NOE = <<>> /\ Len(ret.val.R2) > 0

\* the defaults of the i-th measurement of kind k against its row
DefaultsTaken(row, m, k) ==
    /\ k # 4 /\ ~DictHas(row, K_Atom) => m.atom = PyStr(S_N)
    /\ k = 4 /\ ~DictHas(row, K_Rex) => m.type = PyStr(S_DD_CSA)
    /\ ~DictHas(row, K_Val) => m.value = Zero
    /\ ~DictHas(row, K_Err) => m.error = Zero

\* C3: in a well-formed document whose present Val and Val_err fields are all
\* numeric, absent fields never make the call fail; and in every record set
\* returned, a row without Atom_ID has atom "N", a CCR row without Rex_type
\* has type "DD_CSA", a row without Val or Val_err has 0.0 in its place.
C3_AbsentFieldDefaults ==
    ParseDone /\ WellFormed(entry_data) /\ PyTruthy(entry_data) =>
        /\ ~HasBadRow(entry_data) => ret.val # None
        /\ ret.val # None =>
              \A k \in 1..4 :
                  /\ Len(Field(ret.val, k)) = Len(SectionRows(entry_data, k))
                  /\ \A i \in 1..Len(SectionRows(entry_data, k)) :
                        DefaultsTaken(SectionRows(entry_data, k)[i],
                                      Field(ret.val, k)[i], k)

\* C3 witness: a NOE row with neither Atom_ID, Val nor Val_err and a CCR row
\* without Rex_type, both appended with their defaults.
C3_Witness ==
    /\ ParseDone /\ WellFormed(entry_data) /\ ret.val # None
    /\ Len(SectionRows(entry_data, 3)) > 0
    /\ SectionRows(entry_data, 3)[1] = RowB
    /\ ret.val.NOE[1] = [residue |-> PyInt(2), atom |-> PyStr(S_N),
                         value |-> Zero, error |-> Zero]
    /\ Len(SectionRows(entry_data, 4)) > 0
    /\ ~DictHas(SectionRows(entry_data, 4)[1], K_Rex)
    /\ ret.val.CCR[1].type = PyStr(S_DD_CSA)

\* C4: a record set returned for a well-formed document holds, for each kind,
\* one measurement per row of the kind's section, in the order of the rows:
\* loop after loop, row after row, loops without 'data' giving nothing.
C4_SourceOrder ==
    ParseDone /\ WellFormed(entry_data) /\ ret.val # None =>
        \A k \in 1..4 :
            /\ Len(Field(ret.val, k)) = Len(SectionRows(entry_data, k))
            /\ \A i \in 1..Len(SectionRows(entry_data, k)) :
                  /\ i <= Len(Field(ret.val, k))
                  /\ Field(ret.val, k)[i].residue =
                        RowField(SectionRows(entry_data, k)[i], K_Comp)

\* C4 witness: two loops of the R2 section, the row of residue 2 before the
\* row of residue 1, kept in that order.
C4_Witness ==
    /\ ParseDone /\ WellFormed(entry_data) /\ ret.val # None
    /\ DictHas(entry_data, K_T2)
    /\ Len(DictAt(entry_data, K_T2).items) = 2
    /\ SectionRows(entry_data, 2) = <<RowB, RowA>>
    /\ Len(ret.val.R2) = 2
    /\ ret.val.R2[1].residue = PyInt(2) /\ ret.val.R2[2].residue = PyInt(1)

\* the rows of related_entries up to i are dicts and row i names PDB first
FirstPdbAt(rows, i) ==
    /\ \A j \in 1..i : IsDict(rows[j])
    /\ RowField(rows[i], K_DbName) = PyStr(S_PDB)
    /\ \A j \in 1..(i - 1) : RowField(rows[j], K_DbName) # PyStr(S_PDB)

\* doc is a dict whose related_entries is a list
HasRelatedList(doc) ==
    IsDict(doc) /\ DictHas(doc, K_Rel) /\ IsList(DictAt(doc, K_Rel))

\* C9: get_pdb_structure never raises; it returns the accession code of the
\* first related_entries row whose Database_name is "PDB" (None when that row
\* has no code), and None when the section is missing, when no row matches
\* and when the document or the rows scanned are mis-shaped.
C9_FirstPdbRow ==
    ResolveDone =>
        /\ ~ret.raised
        /\ IF HasRelatedList(entry_data)
              /\ \E i \in 1..Len(DictAt(entry_data, K_Rel).items) :
                    FirstPdbAt(DictAt(entry_data, K_Rel).items, i)
           THEN \A i \in 1..Len(DictAt(entry_data, K_Rel).items) :
                    FirstPdbAt(DictAt(entry_data, K_Rel).items, i) =>
                        ret.val = RowField(DictAt(entry_data, K_Rel).items[i],
                                           K_DbCode)
           ELSE ret.val = None

\* C9 witness: two PDB rows with different codes, the first one's returned.
C9_Witness ==
    /\ ResolveDone /\ HasRelatedList(entry_data)
    /\ Len(DictAt(entry_data, K_Rel).items) = 2
    /\ FirstPdbAt(DictAt(entry_data, K_Rel).items, 1)
    /\ RowField(DictAt(entry_data, K_Rel).items[2], K_DbName) = PyStr(S_PDB)
    /\ RowField(DictAt(entry_data, K_Rel).items[2], K_DbCode) = S_1ABC
    /\ ret.val = S_2XYZ

\* the record set with the identifier and four empty sequences
EmptyRecordSet(bmrb_id) ==
    [bmrb_id |-> bmrb_id, R1 |-> <<>>, R2 |-> <<>>, NOE |-> <<>>, CCR |-> <<>>]

\* C10: every falsy document, None and the dict without keys alike, gives
\* None; the record set with four empty sequences is returned for a dict only
\* when it has at least one key and its relaxation sections hold no rows.
C10_FalsyShortCircuit ==
    ParseDone =>
        /\ ~PyTruthy(entry_data) => ret.val = None
        /\ entry_data \in {None, EmptyDict} => ret.val = None
        /\ IsDict(entry_data) /\ ret.val = EmptyRecordSet(ret.arg) =>
              /\ Len(entry_data.keys) >= 1
              /\ \A k \in 1..4 :
                    DictHas(entry_data, KindKeys[k])
                    /\ SectionWellFormed(DictAt(entry_data, KindKeys[k]))
                        => SectionRows(entry_data, k) = <<>>

\* C10 witness: the dict without keys has been parsed.
C10_Witness ==
    ParseDone /\ entry_data = EmptyDict /\ ret.val = None

(***************************************************************************)
(* json.dump and json.load: a file or a response body is a sequence of     *)
(* cells, a JSON text one token per cell                                   *)
(***************************************************************************)
Punct(c) == [k |-> "p", c |-> c]
Atom(v) == [k |-> "a", v |-> v]
\* a cell never written, left behind a write past the end of the file
Hole == [k |-> "hole"]
TextLine(l) == [k |-> "text", line |-> l]

RECURSIVE JsonDump(_), DumpItems(_), DumpMembers(_, _)
\* json.dump(v, f)
JsonDump(v) ==
    CASE v.t = "list" -> <<Punct("[")>> \o DumpItems(v.items) \o <<Punct("]")>>
      [] v.t = "dict" -> <<Punct("{")>> \o DumpMembers(v.keys, v.vals) \o <<Punct("}")>>
      [] OTHER -> <<Atom(v)>>

DumpItems(xs) ==
    IF xs = <<>> THEN <<>>
    ELSE IF Len(xs) = 1 THEN JsonDump(xs[1])
    ELSE JsonDump(Head(xs)) \o <<Punct(",")>> \o DumpItems(Tail(xs))

DumpMembers(ks, vs) ==
    IF ks = <<>> THEN <<>>
    ELSE IF Len(ks) = 1 THEN <<Atom(PyStr(ks[1])), Punct(":")>> \o JsonDump(vs[1])
    ELSE <<Atom(PyStr(Head(ks))), Punct(":")>> \o JsonDump(Head(vs))
         \o <<Punct(",")>> \o DumpMembers(Tail(ks), Tail(vs))

Parsed(v, next) == [ok |-> TRUE, val |-> v, next |-> next]
NotJson == [ok |-> FALSE]

\* d[k] = v
DictPut(ks, vs, k, v) ==
    IF \E i \in 1..Len(ks) : ks[i] = k
    THEN PyDict(ks, [i \in 1..Len(ks) |-> IF ks[i] = k THEN v ELSE vs[i]])
    ELSE PyDict(Append(ks, k), Append(vs, v))

IsKeyAt(t, i) ==
    /\ i + 1 <= Len(t)
    /\ t[i].k = "a" /\ t[i].v.t = "str"
    /\ t[i + 1] = Punct(":")

RECURSIVE LoadValue(_, _), LoadItems(_, _, _), ItemsAfter(_, _, _),
          LoadMembers(_, _, _, _), MembersAfter(_, _, _, _, _)
\* the JSON value that starts at cell i of t
LoadValue(t, i) ==
    IF i > Len(t) THEN NotJson
    ELSE IF t[i].k = "a" THEN Parsed(t[i].v, i + 1)
    ELSE IF t[i] = Punct("[")
         THEN IF i < Len(t) /\ t[i + 1] = Punct("]")
              THEN Parsed(EmptyList, i + 2)
              ELSE LoadItems(t, i + 1, <<>>)
    ELSE IF t[i] = Punct("{")
         THEN IF i < Len(t) /\ t[i + 1] = Punct("}")
              THEN Parsed(EmptyDict, i + 2)
              ELSE LoadMembers(t, i + 1, <<>>, <<>>)
    ELSE NotJson

LoadItems(t, i, acc) == ItemsAfter(t, LoadValue(t, i), acc)

ItemsAfter(t, r, acc) ==
    IF ~r.ok \/ r.next > Len(t) THEN NotJson
    ELSE IF t[r.next] = Punct(",") THEN LoadItems(t, r.next + 1, Append(acc, r.val))
    ELSE IF t[r.next] = Punct("]") THEN Parsed(PyList(Append(acc, r.val)), r.next + 1)
    ELSE NotJson

LoadMembers(t, i, ks, vs) ==
    IF ~IsKeyAt(t, i) THEN NotJson
    ELSE MembersAfter(t, t[i].v.s, LoadValue(t, i + 2), ks, vs)

MembersAfter(t, key, r, ks, vs) ==
    IF ~r.ok \/ r.next > Len(t) THEN NotJson
    ELSE IF t[r.next] = Punct(",")
         THEN LoadMembers(t, r.next + 1, DictPut(ks, vs, key, r.val).keys,
                          DictPut(ks, vs, key, r.val).vals)
    ELSE IF t[r.next] = Punct("}") THEN Parsed(DictPut(ks, vs, key, r.val), r.next + 1)
    ELSE NotJson

WholeText(t, r) == IF r.ok /\ r.next = Len(t) + 1 THEN Value(r.val) ELSE Raise

\* json.load(f), response.json(): raises unless the text is one JSON value
JsonLoad(t) == WholeText(t, LoadValue(t, 1))

(***************************************************************************)
(* The cache directory and the remote services                             *)
(***************************************************************************)
MaxCalls == 2

CacheDir == "./bmrb_data"
OutDir == "./structures"

\* str(bmrb_id) inside an f-string
IdStr(bmrb_id) ==
    CASE bmrb_id = 15477 -> "15477" [] bmrb_id = 6457 -> "6457"

PdbIds == {"1ABC"}

\* cache_dir / f"bmrb_{bmrb_id}.json"
EntryFile(bmrb_id) == [dir |-> CacheDir, name |-> <<"bmrb_", IdStr(bmrb_id), ".json">>]

\* output_dir / f"{pdb_id}.pdb"
PdbFile(dir, pdb_id) == [dir |-> dir, name |-> <<pdb_id, ".pdb">>]

\* str(pdb_file)
PathStr(f) == <<f.dir, "/">> \o f.name

\* f"{self.API_URL}/entry/{bmrb_id}"
EntryUrl(bmrb_id) == <<"https://api.bmrb.io/v2", "/entry/", IdStr(bmrb_id)>>

\* f"https://files.rcsb.org/download/{pdb_id}.pdb"
PdbUrl(pdb_id) == <<"https://files.rcsb.org/download/", pdb_id, ".pdb">>

Paths ==
    {EntryFile(i) : i \in Ids} \cup {PdbFile(d, p) : d \in {CacheDir, OutDir}, p \in PdbIds}

Urls == {EntryUrl(i) : i \in Ids} \cup {PdbUrl(p) : p \in PdbIds}

\* a variant of Exists: the cache is never found
NeverExists(fs, f) == FALSE

\* cache_file.exists()
Exists(fs, f) == fs[f].exists

\* documents the archive serves
DocA ==
    Dict1(K_Rel, PyList(<<MkDict(<<<<K_DbName, PyStr(S_PDB)>>, <<K_DbCode, S_1ABC>>>>)>>))
DocB == Dict1(K_NOE, PyList(<<EmptyDict, Dict1(K_data, PyList(<<RowB>>))>>))
RemoteDocs == {DocA, DocB}

\* structure files the structure service serves
PdbTexts == {<<TextLine("HEADER"), TextLine("END")>>}

\* requests.get: a response, or an exception of the transport
Response200(sent) == Value([status_code |-> 200, body |-> JsonDump(sent), sent |-> sent])
ResponseText(text) == Value([status_code |-> 200, body |-> text, sent |-> text])
ResponseFailed(code) == Value([status_code |-> code])
ConnectionError == Raise

EntryReplies ==
    {Response200(d) : d \in RemoteDocs}
    \cup {ResponseFailed(404), ConnectionError}

PdbReplies ==
    {ResponseText(t) : t \in PdbTexts} \cup {ResponseFailed(404), ConnectionError}

\* how a call ended: out is Value(v) or Raise; called tells whether requests.get
\* was called, status its status code (0 when there was no response)
Outcome(fs, called, status, out) ==
    [files |-> fs, called |-> called, status |-> status, out |-> out]

(***************************************************************************)
(* fetch_entry                                                             *)
(***************************************************************************)
\* with open(cache_file, 'w') as f: json.dump(data, f); return data
EntryStore(fs, f, data) ==
    IF data.exc THEN Outcome(fs, TRUE, 200, Raise)
    ELSE Outcome([fs EXCEPT ![f] = File(JsonDump(data.val))], TRUE, 200, Value(data.val))

\* a variant of EntryAfterGet: the failure is cached as null
EntryAfterGetCacheAll(fs, f, response) ==
    IF response.status_code = 200
    THEN EntryStore(fs, f, JsonLoad(response.body))
    ELSE Outcome([fs EXCEPT ![f] = File(JsonDump(None))], TRUE, response.status_code,
                 Value(None))

\* if response.status_code == 200: ... else: return None
EntryAfterGet(fs, f, response) ==
    IF response.status_code = 200
    THEN EntryStore(fs, f, JsonLoad(response.body))
    ELSE Outcome(fs, TRUE, response.status_code, Value(None))

fetch_entry(fs, bmrb_id, reply) ==
    IF Exists(fs, EntryFile(bmrb_id))
    THEN Outcome(fs, FALSE, 0, JsonLoad(fs[EntryFile(bmrb_id)].cells))
    ELSE IF reply.exc THEN Outcome(fs, TRUE, 0, Raise)
    ELSE EntryAfterGet(fs, EntryFile(bmrb_id), reply.val)

(***************************************************************************)
(* download_pdb                                                            *)
(***************************************************************************)
\* output_dir = self.cache_dir if output_dir is None else Path(output_dir)
DirOf(output_dir) == IF output_dir = None THEN CacheDir ELSE output_dir.dir

PdbAfterGet(fs, f, response) ==
    IF response.status_code = 200
    THEN Outcome([fs EXCEPT ![f] = File(response.body)], TRUE, 200, Value(PathStr(f)))
    ELSE Outcome(fs, TRUE, response.status_code, Value(None))

download_pdb(fs, pdb_id, output_dir, reply) ==
    IF Exists(fs, PdbFile(DirOf(output_dir), pdb_id))
    THEN Outcome(fs, FALSE, 0, Value(PathStr(PdbFile(DirOf(output_dir), pdb_id))))
    ELSE IF reply.exc THEN Outcome(fs, TRUE, 0, Raise)
    ELSE PdbAfterGet(fs, PdbFile(DirOf(output_dir), pdb_id), reply.val)

(***************************************************************************)
(* Sequential calls on one fetcher                                         *)
(***************************************************************************)
\* what ret records of a call
CallRecord(op, arg, r) ==
    IF r.out.exc
    THEN [op |-> op, arg |-> arg, raised |-> TRUE, called |-> r.called,
          status |-> r.status]
    ELSE [op |-> op, arg |-> arg, raised |-> FALSE, val |-> r.out.val,
          called |-> r.called, status |-> r.status]

NoFiles == [f \in Paths |-> NoFile]

\* the directory as an earlier run may have left it: empty, or holding the
\* entry file of 15477, whole or cut short
InitialCaches ==
    {NoFiles,
     [NoFiles EXCEPT ![EntryFile(15477)] = File(JsonDump(DocB))],
     [NoFiles EXCEPT ![EntryFile(15477)] = File(SubSeq(JsonDump(DocB), 1, 4))]}

Init ==
    /\ files \in InitialCaches
    /\ calls = [u \in Urls |-> 0]
    /\ got = [i \in Ids |-> NoDoc]
    /\ entry_data = None
    /\ ret = NoCall
    /\ pc = <<>>
    /\ loc = <<>>

Count(cs, url, r) == IF r.called THEN [cs EXCEPT ![url] = @ + 1] ELSE cs

FetchEntry ==
    \E bmrb_id \in Ids, reply \in EntryReplies :
        LET r == fetch_entry(files, bmrb_id, reply)
        IN  /\ r.called => calls[EntryUrl(bmrb_id)] < MaxCalls
            /\ files' = r.files
            /\ calls' = Count(calls, EntryUrl(bmrb_id), r)
            /\ got' = IF r.status = 200
                      THEN [got EXCEPT ![bmrb_id] = reply.val.sent] ELSE got
            /\ ret' = CallRecord("fetch_entry", bmrb_id, r)
            /\ UNCHANGED <<entry_data, pc, loc>>

DownloadPdb ==
    \E pdb_id \in PdbIds, output_dir \in {None, [t |-> "path", dir |-> OutDir]}, reply \in PdbReplies :
        LET r == download_pdb(files, pdb_id, output_dir, reply)
        IN  /\ r.called => calls[PdbUrl(pdb_id)] < MaxCalls
            /\ files' = r.files
            /\ calls' = Count(calls, PdbUrl(pdb_id), r)
            /\ ret' = CallRecord("download_pdb", <<pdb_id, DirOf(output_dir)>>, r)
            /\ UNCHANGED <<got, entry_data, pc, loc>>

Next == FetchEntry \/ DownloadPdb

Spec == Init /\ [][Next]_vars

(***************************************************************************)
(* Properties of fetch_entry and download_pdb, called in sequence (Spec)   *)
(***************************************************************************)
FetchDone == ret.op = "fetch_entry"

\* the cache file and the URL of the call ret records
TargetFile(r) ==
    IF r.op = "fetch_entry" THEN EntryFile(r.arg) ELSE PdbFile(r.arg[2], r.arg[1])

TargetUrl(r) ==
    IF r.op = "fetch_entry" THEN EntryUrl(r.arg) ELSE PdbUrl(r.arg[1])

\* C5: once an identifier has had an HTTP 200 response, no later step makes a
\* remote call for it or changes its cache file, and every later fetch_entry
\* call for it returns, from the cache and without raising, the document of
\* that response; so there is at most one successful remote call for it.
C5_CacheFirstIdempotent ==
    [][\A i \in Ids :
          got[i] # NoDoc =>
              /\ got'[i] = got[i]
              /\ calls'[EntryUrl(i)] = calls[EntryUrl(i)]
              /\ files'[EntryFile(i)] = files[EntryFile(i)]
              /\ ret'.op = "fetch_entry" /\ ret'.arg = i =>
                    ~ret'.raised /\ ~ret'.called /\ ret'.val = got[i]]_vars

\* C5 witness: a call served from the cache, after the one remote call that
\* was answered 200, returns the document of that answer.
C5_Witness ==
    /\ FetchDone /\ ~ret.called /\ ~ret.raised
    /\ got[ret.arg] # NoDoc /\ ret.val = got[ret.arg]
    /\ calls[EntryUrl(ret.arg)] = 1

\* C6: a fetch_entry or download_pdb call whose remote call is answered with
\* a status other than 200 returns None after exactly one remote call and
\* leaves every file as it was: its cache file still does not exist.
C6_FailureNotCached ==
    [][ret'.op \in {"fetch_entry", "download_pdb"}
       /\ ret'.called /\ ret'.status \notin {0, 200} =>
           /\ ~ret'.raised /\ ret'.val = None
           /\ files' = files
           /\ ~Exists(files', TargetFile(ret'))
           /\ calls' = [calls EXCEPT ![TargetUrl(ret')] = @ + 1]]_vars

\* C6 witness: a second fetch_entry call for an identifier went to the remote
\* again and failed again, the cache file still absent.
C6_Witness ==
    /\ FetchDone /\ ret.called /\ ret.status = 404 /\ ret.val = None
    /\ calls[EntryUrl(ret.arg)] = 2
    /\ ~Exists(files, EntryFile(ret.arg))

\* C7: no top-level call ends by raising.
C7_NeverRaises == ret.op # "none" => ~ret.raised

(***************************************************************************)
(* Two callers of fetch_entry for one identifier, step by step             *)
(***************************************************************************)
Procs == {"a", "b"}

ConcId == CHOOSE i \in Ids : i = 15477

\* the same identifier is served the same document
ConcReplies == {Response200(DocA), ResponseFailed(404)}

NoResponse == [status_code |-> 0]

\* the cells of a file after chunk is written at offset off
WriteAt(cells, off, chunk) ==
    [i \in 1..(IF Len(cells) > off + Len(chunk) THEN Len(cells) ELSE off + Len(chunk)) |->
        IF i > off /\ i <= off + Len(chunk) THEN chunk[i - off]
        ELSE IF i <= Len(cells) THEN cells[i]
        ELSE Hole]

InitConc ==
    /\ files = NoFiles
    /\ calls = [u \in Urls |-> 0]
    /\ got = [i \in Ids |-> NoDoc]
    /\ entry_data = None
    /\ ret = NoCall
    /\ pc = [p \in Procs |-> "exists"]
    /\ loc = [p \in Procs |-> [response |-> NoResponse, data |-> None, off |-> 0,
                               raised |-> FALSE, val |-> None]]

\* line 46: if cache_file.exists()
CheckExists(p) ==
    /\ pc[p] = "exists"
    /\ pc' = [pc EXCEPT ![p] = IF Exists(files, EntryFile(ConcId)) THEN "read" ELSE "get"]
    /\ UNCHANGED <<files, calls, got, entry_data, ret, loc>>

\* lines 48-49: with open(cache_file) as f: return json.load(f)
ReadCache(p) ==
    /\ pc[p] = "read"
    /\ loc' = [loc EXCEPT ![p].raised = JsonLoad(files[EntryFile(ConcId)].cells).exc,
                          ![p].val = OrNone(JsonLoad(files[EntryFile(ConcId)].cells))]
    /\ pc' = [pc EXCEPT ![p] = "done"]
    /\ UNCHANGED <<files, calls, got, entry_data, ret>>

\* line 53: response = requests.get(url)
Get(p) ==
    /\ pc[p] = "get"
    /\ \E reply \in ConcReplies :
          loc' = [loc EXCEPT ![p].response = reply.val]
    /\ calls' = [calls EXCEPT ![EntryUrl(ConcId)] = @ + 1]
    /\ pc' = [pc EXCEPT ![p] = "status"]
    /\ UNCHANGED <<files, got, entry_data, ret>>

\* lines 55-56: if response.status_code == 200: data = response.json()
StatusOk(p) ==
    /\ pc[p] = "status"
    /\ loc[p].response.status_code = 200
    /\ loc' = [loc EXCEPT ![p].data = JsonLoad(loc[p].response.body).val]
    /\ pc' = [pc EXCEPT ![p] = "open"]
    /\ UNCHANGED <<files, calls, got, entry_data, ret>>

\* lines 60-62: else: return None
StatusFailed(p) ==
    /\ pc[p] = "status"
    /\ loc[p].response.status_code # 200
    /\ pc' = [pc EXCEPT ![p] = "done"]
    /\ UNCHANGED <<files, calls, got, entry_data, ret, loc>>

\* line 57: open(cache_file, 'w') creates the file or cuts it to nothing
OpenForWrite(p) ==
    /\ pc[p] = "open"
    /\ files' = [files EXCEPT ![EntryFile(ConcId)] = File(<<>>)]
    /\ loc' = [loc EXCEPT ![p].off = 0]
    /\ pc' = [pc EXCEPT ![p] = "write"]
    /\ UNCHANGED <<calls, got, entry_data, ret>>

\* line 58: json.dump(data, f): the text reaches the file in one or more
\* pieces, each at the caller's own offset
WriteChunk(p) ==
    /\ pc[p] = "write"
    /\ loc[p].off < Len(JsonDump(loc[p].data))
    /\ \E n \in 1..(Len(JsonDump(loc[p].data)) - loc[p].off) :
          /\ files' = [files EXCEPT ![EntryFile(ConcId)] =
                          File(WriteAt(files[EntryFile(ConcId)].cells, loc[p].off,
                                       SubSeq(JsonDump(loc[p].data), loc[p].off + 1,
                                              loc[p].off + n)))]
          /\ loc' = [loc EXCEPT ![p].off = @ + n]
    /\ UNCHANGED <<calls, got, entry_data, ret, pc>>

\* line 59: the file is closed, return data
ReturnData(p) ==
    /\ pc[p] = "write"
    /\ loc[p].off = Len(JsonDump(loc[p].data))
    /\ loc' = [loc EXCEPT ![p].val = loc[p].data]
    /\ pc' = [pc EXCEPT ![p] = "done"]
    /\ UNCHANGED <<files, calls, got, entry_data, ret>>

NextConc ==
    \E p \in Procs :
        \/ CheckExists(p)
        \/ ReadCache(p)
        \/ Get(p)
        \/ StatusOk(p)
        \/ StatusFailed(p)
        \/ OpenForWrite(p)
        \/ WriteChunk(p)
        \/ ReturnData(p)

SpecConc == InitConc /\ [][NextConc]_vars

AllDone == \A p \in Procs : pc[p] = "done"

\* C8: in every interleaving each caller returns the whole document, or None
\* after a failed response, never raising on an empty or half-written cache
\* file; and when both are done the cache file, if there is one, holds the
\* whole document once.
C8_BenignRace ==
    /\ \A p \in Procs :
          pc[p] = "done" => ~loc[p].raised /\ loc[p].val \in {DocA, None}
    /\ AllDone /\ Exists(files, EntryFile(ConcId)) =>
          files[EntryFile(ConcId)] = File(JsonDump(DocA))

\* when both callers are done the cache file, if there is one, is whole
FinalCacheWhole ==
    AllDone /\ Exists(files, EntryFile(ConcId)) =>
        files[EntryFile(ConcId)] = File(JsonDump(DocA))

====
